---- MODULE Spec2Model ----
(***************************************************************************)
(* A model of adapt-authoring-middleware: the upload validator             *)
(* (lib/utils/validateUploadedFiles.js) and the middleware of              *)
(* lib/MiddlewareModule.js: the API rate limiter, the middleware stack     *)
(* init registers, and the multipart and remote upload handlers. The       *)
(* counter store behind rateLimiter.consume is the rate-limiter-flexible   *)
(* library, which is not part of the repository: consumedRecord and        *)
(* Consume state what the specification says of it (one atomic             *)
(* increment-and-compare per admission, a fixed window per identity).      *)
(* The file system, formidable, axios and unzip are the environment: each  *)
(* of their calls ends in one of the outcomes the handlers distinguish.    *)
(*                                                                         *)
(* SpecValidate   : validateUploadedFiles applied to bounded sets of file  *)
(*                  records under bounded policies, called up to MaxCalls  *)
(*                  times on the same records.                             *)
(* SpecRateLimit  : the rate limiter's request handler run by several      *)
(*                  concurrent requests against the shared counter store.  *)
(* SpecPipeline   : init and the dispatch of requests through the stack    *)
(*                  it registers.                                          *)
(* SpecFileUpload : one request served by a fileUploadParser handler.      *)
(* SpecUrlUpload  : one request served by a urlUploadParser handler.       *)
(* SpecUrlUploads : the same, with a second request of the handler staging *)
(*                  its download at the same time.                         *)
(***************************************************************************)
EXTENDS Integers, Sequences, FiniteSets, TLC

VARIABLES
  filesObj,     \* the files object handed to validateUploadedFiles: a sequence (Object.values) of arrays of file records
  options,      \* the policy: [expectedFileTypes, maxFileSize]
  vpc,          \* "idle" | "validating": where the validator is
  awaiting,     \* file references whose callback is suspended in `await fileTypeFromFile`
  assetErrors,  \* the violations collected by the running call
  inspected,    \* file references whose bytes were inspected during the running call
  callStart,    \* filesObj as it was when the running call started
  redeclared,   \* whether the records were re-submitted with other declared mimetypes since the last call
  log,          \* one entry per completed call
  store,        \* the rate limiter's counter store: ip -> record or NoRecord
  ticks,        \* the clock, in ticks of TickMs milliseconds
  reqs,         \* the requests passing through the rate limiter's handler
  stack,        \* the middleware stack of the API router, as init registered it
  limiterSetup, \* the promise returned by rateLimiter(): "pending" | "fulfilled" | "rejected"
  disp,         \* the requests dispatched through the middleware stack
  upload,       \* the run of a fileUploadParser handler: where it is and what it has signalled
  uploadReq,    \* the request it serves: content type, body, fileUpload
  uploadOpts,   \* the options object the handler was created with
  uploadFiles,  \* the files object formidable handed to its callback
  uploadDir,    \* the paths that exist on disk under the upload directory
  remote,       \* the run of a urlUploadParser handler: where it is and what it has signalled
  remoteReq,    \* the request it serves: body, fileUpload
  remoteOpts,   \* the options object the handler was created with
  remoteDir     \* the paths the handler has created on disk

validateVars == <<filesObj, options, vpc, awaiting, assetErrors, inspected, callStart, redeclared, log>>
rateVars == <<store, ticks, reqs>>
pipelineVars == <<stack, limiterSetup, disp>>
uploadVars == <<upload, uploadReq, uploadOpts, uploadFiles, uploadDir>>
remoteVars == <<remote, remoteReq, remoteOpts, remoteDir>>
handlerVars == <<pipelineVars, uploadVars, remoteVars>>
vars == <<validateVars, rateVars, handlerVars>>

----------------------------------------------------------------------------
(* Bounds of the model *)

MaxFiles == 2        \* files in one files object
MaxSize == 2         \* the largest file size, in bytes; maxFileSize ranges over 1..MaxSize-1
MaxCalls == 2        \* calls of validateUploadedFiles on the same records

----------------------------------------------------------------------------
(* Values *)

Undefined == "undefined"

Png == "image/png"
Pdf == "application/pdf"
TextPlain == "text/plain"
Subrip == "application/x-subrip"

\* File names are sequences of characters, so that path.extname is computed.
NameSrt == <<"a", ".", "s", "r", "t">>
NamePng == <<"a", ".", "p", "n", "g">>
Names == {NameSrt, NamePng}

\* The staged files: a path and the signature its bytes carry.
Paths == {"/tmp/png", "/tmp/pdf", "/tmp/txt"}

\* The client-declared mimetypes of the model.
Declared == {Png, TextPlain}

ExpectedFileTypesChoices == {<<Png>>, <<Subrip>>, <<Png, Subrip>>}

Policies == [expectedFileTypes : ExpectedFileTypesChoices, maxFileSize : 1..(MaxSize - 1)]

FileRecords == [mimetype : Declared, filepath : Paths, originalFilename : Names, size : 1..MaxSize]

----------------------------------------------------------------------------
(* Helpers of the validator *)

\* Array.prototype.includes
includes(arr, v) == \E i \in DOMAIN arr : arr[i] = v

\* fileTypeFromFile(path)?.mime : the type read from the file's magic number,
\* undefined when the bytes carry no known signature (plain text).
fileTypeFromFile(p) ==
  CASE p = "/tmp/png" -> Png
    [] p = "/tmp/pdf" -> Pdf
    [] p \in {"/tmp/uploads/1.png", "/tmp/uploads/2.png", "/tmp/uploads/3.png"} -> Png
    [] p \in {"/tmp/uploads/1.zip", "/tmp/uploads/2.zip", "/tmp/uploads/3.zip"} -> "application/zip"
    [] OTHER -> Undefined

\* The index of the last "." of a name, 0 when there is none.
RECURSIVE lastDot(_, _)
lastDot(name, i) ==
  IF i = 0 THEN 0
  ELSE IF name[i] = "." THEN i
  ELSE lastDot(name, i - 1)

\* path.extname: from the last "." to the end; empty when there is no "." or
\* the only "." is the first character of the name.
extname(name) ==
  LET d == lastDot(name, Len(name))
  IN IF d <= 1 THEN <<>> ELSE SubSeq(name, d, Len(name))

\* bytes(n): the model's sizes are all below 1 KB, where bytes() gives "<n>B".
bytes(n) == <<n, "B">>

\* Object.values(filesObj).reduce((memo, f) => memo.concat(f), []), as
\* references <<field, position>> into filesObj (the array holds the records
\* themselves, not copies).
RECURSIVE flatten(_, _)
flatten(fo, k) ==
  IF k > Len(fo) THEN <<>>
  ELSE [j \in 1..Len(fo[k]) |-> <<k, j>>] \o flatten(fo, k + 1)

filesArr(fo) == flatten(fo, 1)

fileAt(fo, ref) == fo[ref[1]][ref[2]]

setMimetype(fo, ref, m) == [fo EXCEPT ![ref[1]][ref[2]].mimetype = m]

Seq2Set(s) == {s[i] : i \in DOMAIN s}

\* The files objects of the model: up to MaxFiles records, grouped into form
\* fields in every way (a field holds an array of one or more records).
RECURSIVE group(_, _, _, _)
group(flat, cuts, i, cur) ==
  IF i > Len(flat) THEN (IF cur = <<>> THEN <<>> ELSE <<cur>>)
  ELSE LET cur2 == Append(cur, flat[i])
       IN IF i \in cuts
          THEN <<cur2>> \o group(flat, cuts, i + 1, <<>>)
          ELSE group(flat, cuts, i + 1, cur2)

FilesObjs ==
  {group(flat, cuts, 1, <<>>) :
     flat \in UNION {[1..n -> FileRecords] : n \in 0..MaxFiles},
     cuts \in SUBSET (1..(MaxFiles - 1))}

----------------------------------------------------------------------------
(* validateUploadedFiles *)

SrtExt == <<".", "s", "r", "t">>

\* Variant: a record without a mimetype is not inspected
\* (if (f.mimetype && !options.expectedFileTypes.includes(f.mimetype))).
NeedsInspectionUndefinedOk(f, opts) ==
  f.mimetype # Undefined /\ ~includes(opts.expectedFileTypes, f.mimetype)

\* Variant: every record is inspected, whatever its declared mimetype.
NeedsInspectionAlways(f, opts) == TRUE

\* if (!options.expectedFileTypes.includes(f.mimetype))
needsInspection(f, opts) == ~includes(opts.expectedFileTypes, f.mimetype)

\* Variant: the sniffed type alone, without the .srt fallback.
InspectedMimetypeNoSrt(f) == fileTypeFromFile(f.filepath)

\* f.mimetype = (await fileTypeFromFile(f.filepath))?.mime
\* if (!f.mimetype && path.extname(f.originalFilename) === '.srt') f.mimetype = 'application/x-subrip'
inspectedMimetype(f) ==
  LET sniffed == fileTypeFromFile(f.filepath)
  IN IF sniffed = Undefined /\ extname(f.originalFilename) = SrtExt
     THEN Subrip
     ELSE sniffed

UNEXPECTED_FILE_TYPES(f, opts) ==
  [code |-> "UNEXPECTED_FILE_TYPES",
   data |-> [expectedFileTypes |-> opts.expectedFileTypes,
             invalidFiles |-> <<f.originalFilename>>,
             mimetypes |-> <<f.mimetype>>]]

FILE_EXCEEDS_MAX_SIZE(f, opts) ==
  [code |-> "FILE_EXCEEDS_MAX_SIZE",
   data |-> [size |-> bytes(f.size), maxSize |-> bytes(opts.maxFileSize)]]

\* the second includes() test, on the record as inspection left it
typeError(f, opts) ==
  IF ~includes(opts.expectedFileTypes, f.mimetype)
  THEN <<UNEXPECTED_FILE_TYPES(f, opts)>>
  ELSE <<>>

\* Variant: the limit itself is refused (f.size >= options.maxFileSize).
SizeExceedsOrEqual(f, opts) == f.size >= opts.maxFileSize

\* if (f.size > options.maxFileSize)
sizeExceeds(f, opts) == f.size > opts.maxFileSize

sizeError(f, opts) ==
  IF sizeExceeds(f, opts) THEN <<FILE_EXCEEDS_MAX_SIZE(f, opts)>> ELSE <<>>

\* Variant: the size test is skipped once the type test has failed (else if).
AfterInspectionShortCircuit(f, opts) ==
  IF typeError(f, opts) # <<>> THEN typeError(f, opts) ELSE sizeError(f, opts)

\* What a callback pushes once fileTypeFromFile has answered: the type
\* violation, then the size violation, each on its own test.
afterInspection(f, opts) == typeError(f, opts) \o sizeError(f, opts)

\* The part of filesArr.map(async f => ...) that runs before Promise.all
\* yields: in array order, a callback whose record needs no inspection runs
\* to its end (the size test), one that needs it stops at its await.
RECURSIVE syncPhase(_, _, _, _)
syncPhase(fo, refs, i, opts) ==
  IF i > Len(refs) THEN <<>>
  ELSE LET f == fileAt(fo, refs[i])
       IN (IF needsInspection(f, opts) THEN <<>> ELSE sizeError(f, opts))
          \o syncPhase(fo, refs, i + 1, opts)

suspended(fo, opts) ==
  {filesArr(fo)[i] : i \in {j \in DOMAIN filesArr(fo) : needsInspection(fileAt(fo, filesArr(fo)[j]), opts)}}

\* Variant: the call fails whether or not a violation was collected.
ShouldThrowAlways(errs) == Len(errs) >= 0

\* if (assetErrors.length) throw errors.VALIDATION_FAILED.setData(...)
shouldThrow(errs) == Len(errs) > 0

VALIDATION_FAILED(errs) ==
  [code |-> "VALIDATION_FAILED",
   data |-> [schemaName |-> "fileupload", errors |-> errs]]

\* validateUploadedFiles is called: the synchronous part of every callback.
ValidateCall ==
  /\ vpc = "idle"
  /\ Len(log) < MaxCalls
  /\ vpc' = "validating"
  /\ callStart' = filesObj
  /\ assetErrors' = syncPhase(filesObj, filesArr(filesObj), 1, options)
  /\ awaiting' = suspended(filesObj, options)
  /\ inspected' = suspended(filesObj, options)
  /\ UNCHANGED <<filesObj, options, redeclared, log>>
  /\ UNCHANGED <<rateVars, handlerVars>>

\* Variant: the type test reads the record as it was before the inspected
\* type was assigned to it.
SniffResolveStaleTest(ref) ==
  /\ vpc = "validating"
  /\ ref \in awaiting
  /\ LET fo == setMimetype(filesObj, ref, inspectedMimetype(fileAt(filesObj, ref)))
     IN /\ filesObj' = fo
        /\ assetErrors' = assetErrors \o afterInspection(fileAt(filesObj, ref), options)
  /\ awaiting' = awaiting \ {ref}
  /\ UNCHANGED <<options, vpc, inspected, callStart, redeclared, log>>
  /\ UNCHANGED <<rateVars, handlerVars>>

\* fileTypeFromFile answers for one suspended callback, which runs to its end.
SniffResolve(ref) ==
  /\ vpc = "validating"
  /\ ref \in awaiting
  /\ LET fo == setMimetype(filesObj, ref, inspectedMimetype(fileAt(filesObj, ref)))
     IN /\ filesObj' = fo
        /\ assetErrors' = assetErrors \o afterInspection(fileAt(fo, ref), options)
  /\ awaiting' = awaiting \ {ref}
  /\ UNCHANGED <<options, vpc, inspected, callStart, redeclared, log>>
  /\ UNCHANGED <<rateVars, handlerVars>>

\* Promise.all has resolved: the call throws one VALIDATION_FAILED or returns.
ValidateSettle ==
  /\ vpc = "validating"
  /\ awaiting = {}
  /\ log' = Append(log, [before |-> callStart,
                         after |-> filesObj,
                         options |-> options,
                         errors |-> assetErrors,
                         thrown |-> IF shouldThrow(assetErrors)
                                    THEN <<VALIDATION_FAILED(assetErrors)>>
                                    ELSE <<>>,
                         inspected |-> inspected,
                         redeclared |-> redeclared])
  /\ vpc' = "idle"
  /\ assetErrors' = <<>>
  /\ inspected' = {}
  /\ redeclared' = FALSE
  /\ UNCHANGED <<filesObj, options, awaiting, callStart>>
  /\ UNCHANGED <<rateVars, handlerVars>>

\* The same files are submitted again (same bytes, names and sizes) with
\* other client-declared mimetypes: the records the next call is given.
Redeclare ==
  /\ vpc = "idle"
  /\ Len(log) >= 1
  /\ Len(log) < MaxCalls
  /\ ~redeclared
  /\ \E decl \in [{r \in Seq2Set(filesArr(callStart)) : TRUE} -> Declared] :
       filesObj' = [k \in DOMAIN callStart |->
                      [j \in DOMAIN callStart[k] |->
                         [callStart[k][j] EXCEPT !.mimetype = decl[<<k, j>>]]]]
  /\ redeclared' = TRUE
  /\ UNCHANGED <<options, vpc, awaiting, assetErrors, inspected, callStart, log>>
  /\ UNCHANGED <<rateVars, handlerVars>>

----------------------------------------------------------------------------
(* The rate limiter *)

\* The clients of the model (req.ip).
IPs == {"10.0.0.1", "10.0.0.2"}

\* getConfig('apiRequestLimit'): the quota of the model.
apiRequestLimit == 1

\* getConfig('apiRequestLimitDuration'), in milliseconds ("1s").
apiRequestLimitDuration == 1000

\* The clock advances in steps of half a window, up to MaxTicks steps.
TickMs == apiRequestLimitDuration \div 2
MaxTicks == 2

\* Enough requests to exhaust one window and go on.
Requests == 1..(apiRequestLimit + 2)

now == ticks * TickMs

\* points: this.getConfig('apiRequestLimit')
rateLimiterPoints == apiRequestLimit

\* Variant: the milliseconds of the configuration passed on as seconds.
RateLimiterDurationNotDivided == apiRequestLimitDuration

\* duration: this.getConfig('apiRequestLimitDuration') / 1000   (seconds)
rateLimiterDuration == apiRequestLimitDuration \div 1000

\* Variant: every request is counted under one key, whoever sent it.
ConsumeKeyShared(r) == CHOOSE ip \in IPs : TRUE

\* rateLimiter.consume(req.ip): the key a request is counted under
consumeKey(r) == reqs[r].ip

NoRecord == [points |-> 0, expire |-> -1]

NoData == [consumedPoints |-> 0, remainingPoints |-> 0, msBeforeNext |-> 0]

NoHeaders == <<>>

IdleRequest ==
  [pc |-> "idle", ip |-> "", key |-> "", data |-> NoData, at |-> -1, window |-> -1,
   nextCalls |-> 0, response |-> "none", headers |-> NoHeaders,
   unhandled |-> FALSE]

InitRate ==
  /\ store = [ip \in IPs |-> NoRecord]
  /\ ticks = 0
  /\ reqs = [r \in Requests |-> IdleRequest]

\* A request enters the handler, which calls rateLimiter.consume(req.ip) and
\* awaits it. (Requests are taken in index order: they are interchangeable.)
RateLimiterRequest(r, ip) ==
  /\ reqs[r].pc = "idle"
  /\ \A q \in Requests : q < r => reqs[q].pc # "idle"
  /\ reqs' = [reqs EXCEPT ![r] = [@ EXCEPT !.pc = "consume", !.ip = ip]]
  /\ UNCHANGED <<store, ticks>>
  /\ UNCHANGED <<validateVars, handlerVars>>

\* The record consume leaves in the store: a live record gains one point and
\* keeps its expiry; a missing or expired one is replaced by a record of one
\* point that expires one duration from now.
consumedRecord(rec) ==
  IF rec # NoRecord /\ rec.expire > now
  THEN [rec EXCEPT !.points = rec.points + 1]
  ELSE [points |-> 1, expire |-> now + rateLimiterDuration * 1000]

Max(a, b) == IF a >= b THEN a ELSE b

\* The store executes the consume of request r: one atomic upsert, whose
\* result fulfils the promise when the points consumed are within the quota
\* and rejects it otherwise.
Consume(r) ==
  /\ reqs[r].pc = "consume"
  /\ LET key == consumeKey(r)
         rec == consumedRecord(store[key])
         res == [consumedPoints |-> rec.points,
                 remainingPoints |-> Max(rateLimiterPoints - rec.points, 0),
                 msBeforeNext |-> rec.expire - now]
     IN /\ store' = [store EXCEPT ![key] = rec]
        /\ reqs' = [reqs EXCEPT ![r] =
                      [@ EXCEPT !.pc = IF rec.points > rateLimiterPoints THEN "rejected" ELSE "resolved",
                                !.key = key,
                                !.data = res,
                                !.at = now,
                                !.window = rec.expire]]
  /\ UNCHANGED ticks
  /\ UNCHANGED <<validateVars, handlerVars>>

\* try: consume fulfilled. The headers are set and next() is called.
RateLimiterAdmit(r) ==
  /\ reqs[r].pc = "resolved"
  /\ LET data == reqs[r].data
         resetAt == now + data.msBeforeNext
     IN reqs' = [reqs EXCEPT ![r] =
                   [@ EXCEPT !.pc = "done",
                             !.headers = [RetryAfter |-> <<data.msBeforeNext, 1000>>,
                                          XRateLimitLimit |-> apiRequestLimit,
                                          XRateLimitRemaining |-> data.remainingPoints,
                                          XRateLimitReset |-> resetAt],
                             !.nextCalls = @ + 1]]
  /\ UNCHANGED <<store, ticks>>
  /\ UNCHANGED <<validateVars, handlerVars>>

\* Variant: a refused request is passed on (next() in the catch block).
RateLimiterCatchFailOpen(r) ==
  /\ reqs[r].pc = "rejected"
  /\ reqs' = [reqs EXCEPT ![r] = [@ EXCEPT !.pc = "done", !.nextCalls = @ + 1]]
  /\ UNCHANGED <<store, ticks>>
  /\ UNCHANGED <<validateVars, handlerVars>>

\* catch: consume rejected. The argument of setData names resetAt, a const of
\* the try block that is not in scope here: evaluating it throws a
\* ReferenceError before sendError is called, and the handler's promise
\* rejects with no response sent and next never called.
RateLimiterCatch(r) ==
  /\ reqs[r].pc = "rejected"
  /\ reqs' = [reqs EXCEPT ![r] = [@ EXCEPT !.pc = "threw", !.unhandled = TRUE]]
  /\ UNCHANGED <<store, ticks>>
  /\ UNCHANGED <<validateVars, handlerVars>>

\* Time passes.
Tick ==
  /\ ticks < MaxTicks
  /\ ticks' = ticks + 1
  /\ UNCHANGED <<store, reqs>>
  /\ UNCHANGED <<validateVars, handlerVars>>

NextRateLimit ==
  \/ \E r \in Requests, ip \in IPs : RateLimiterRequest(r, ip)
  \/ \E r \in Requests : Consume(r)
  \/ \E r \in Requests : RateLimiterAdmit(r)
  \/ \E r \in Requests : RateLimiterCatch(r)
  \/ Tick

----------------------------------------------------------------------------
(* init and the middleware stack *)

\* The requests dispatched through the stack.
MaxDispatched == 2
Dispatched == 1..MaxDispatched

Function(name) == [kind |-> "function", name |-> name]

\* The value of calling an async function: a promise of its result.
PromiseOf(name) == [kind |-> "promise", name |-> name]

\* this.rateLimiter() as init evaluates it: rateLimiter is declared async, so
\* the call yields a promise of the (req, res, next) handler, not the handler.
rateLimiterCall == PromiseOf("rateLimiter")

\* The arguments init passes to server.api.addMiddleware, in order.
initMiddleware ==
  <<Function("helmet"), rateLimiterCall, Function("bodyParserJson"),
    Function("bodyParserUrlEncoded"), Function("compression")>>

NoStack == <<>>

\* The request bodies of the model: a content type and whether the body is
\* well formed for it.
Json == "application/json"
UrlEncoded == "application/x-www-form-urlencoded"
Multipart == "multipart/form-data"
ContentTypes == {Json, UrlEncoded, Multipart, Undefined}

NoReq == [contentType |-> Undefined, wellFormed |-> TRUE]

IdleDispatch ==
  [pos |-> 0, req |-> NoReq, visited |-> <<>>, outcome |-> "none", data |-> "none"]

InitPipeline ==
  /\ stack = NoStack
  /\ limiterSetup = "none"
  /\ disp = [p \in Dispatched |-> IdleDispatch]

\* init(). The call this.rateLimiter() runs the async function up to its
\* first await and leaves its promise pending. What the router does with an
\* argument that is not a function is the server module's business: it
\* either keeps the list as given or refuses it (the call throws and init
\* rejects with nothing registered).
ModuleInit ==
  /\ limiterSetup = "none"
  /\ limiterSetup' = "pending"
  /\ \E registered \in BOOLEAN :
       stack' = IF registered THEN initMiddleware ELSE NoStack
  /\ UNCHANGED disp
  /\ UNCHANGED <<validateVars, rateVars, uploadVars, remoteVars>>

\* rateLimiter() resumes after waitForModule and getStats, builds the
\* RateLimiterMongo and calls server.api.addMiddleware(this.middleware()).
\* MiddlewareModule declares no member named middleware: unless its base
\* class supplies one the call throws and the promise rejects; otherwise
\* its value is added to the stack and the promise fulfils with the handler.
\* Nothing awaits the promise either way.
RateLimiterSetup ==
  /\ limiterSetup = "pending"
  /\ \E inherited \in BOOLEAN :
       /\ limiterSetup' = IF inherited THEN "fulfilled" ELSE "rejected"
       /\ stack' = IF inherited /\ stack # NoStack
                   THEN Append(stack, [kind |-> "value", name |-> "this.middleware()"])
                   ELSE stack
  /\ UNCHANGED disp
  /\ UNCHANGED <<validateVars, rateVars, uploadVars, remoteVars>>

AtEntry(p, name) ==
  /\ disp[p].outcome = "pending"
  /\ disp[p].pos \in DOMAIN stack
  /\ stack[disp[p].pos] = Function(name)

\* The handler `by` calls next(arg): without an argument the request moves
\* to the next entry, with an error it leaves the stack for the error handler.
callNext(d, by, arg) ==
  [d EXCEPT !.visited = Append(@, [by |-> by, next |-> arg]),
            !.pos = IF arg = "none" THEN @ + 1 ELSE @,
            !.outcome = IF arg = "none" THEN "pending" ELSE "error"]

\* A request reaches the API router.
Arrive(p, ct, ok) ==
  /\ stack # NoStack
  /\ disp[p].outcome = "none"
  /\ \A q \in Dispatched : q < p => disp[q].outcome # "none"
  /\ disp' = [disp EXCEPT ![p] =
                [@ EXCEPT !.pos = 1, !.outcome = "pending",
                          !.req = [contentType |-> ct, wellFormed |-> ok]]]
  /\ UNCHANGED <<stack, limiterSetup>>
  /\ UNCHANGED <<validateVars, rateVars, uploadVars, remoteVars>>

Helmet(p) ==
  /\ AtEntry(p, "helmet")
  /\ disp' = [disp EXCEPT ![p] = callNext(@, "helmet", "none")]
  /\ UNCHANGED <<stack, limiterSetup>>
  /\ UNCHANGED <<validateVars, rateVars, uploadVars, remoteVars>>

\* The request is at an entry that is not a function: the router passes it
\* over or fails the request with a TypeError.
NotCallable(p) ==
  /\ disp[p].outcome = "pending"
  /\ disp[p].pos \in DOMAIN stack
  /\ stack[disp[p].pos].kind # "function"
  /\ \E skipped \in BOOLEAN :
       disp' = [disp EXCEPT ![p] =
                  IF skipped THEN [@ EXCEPT !.pos = @ + 1]
                  ELSE [@ EXCEPT !.outcome = "error",
                                 !.visited = Append(@, [by |-> "router", next |-> "TypeError"])]]
  /\ UNCHANGED <<stack, limiterSetup>>
  /\ UNCHANGED <<validateVars, rateVars, uploadVars, remoteVars>>

\* bodyParser.json()(req, res, cb): the error cb receives
jsonError(req) == req.contentType = Json /\ ~req.wellFormed

\* bodyParser.urlencoded({ extended: true })(req, res, cb): the error cb receives
urlencodedError(req) == req.contentType = UrlEncoded /\ ~req.wellFormed

\* Variant: the callback drops the parser's error and continues.
BodyParserNextDropsError(error) == "none"

\* if (error) return next(BODY_PARSE_FAILED.setData(...)); next(null, ...args)
bodyParserNext(error) == IF error THEN "BODY_PARSE_FAILED" ELSE "none"

\* error.message of the error the parser hands to cb
parserMessage(name) ==
  IF name = "bodyParserJson" THEN "Unexpected token in JSON"
  ELSE "unsupported urlencoded body"

\* BODY_PARSE_FAILED.setData({ error: error.message })
setDataError(error, name) == IF error THEN parserMessage(name) ELSE "none"

BodyParserJson(p) ==
  /\ AtEntry(p, "bodyParserJson")
  /\ disp' = [disp EXCEPT ![p] =
                [callNext(@, "bodyParserJson", bodyParserNext(jsonError(disp[p].req)))
                   EXCEPT !.data = setDataError(jsonError(disp[p].req), "bodyParserJson")]]
  /\ UNCHANGED <<stack, limiterSetup>>
  /\ UNCHANGED <<validateVars, rateVars, uploadVars, remoteVars>>

BodyParserUrlEncoded(p) ==
  /\ AtEntry(p, "bodyParserUrlEncoded")
  /\ disp' = [disp EXCEPT ![p] =
                [callNext(@, "bodyParserUrlEncoded",
                          bodyParserNext(urlencodedError(disp[p].req)))
                   EXCEPT !.data = setDataError(urlencodedError(disp[p].req),
                                                "bodyParserUrlEncoded")]]
  /\ UNCHANGED <<stack, limiterSetup>>
  /\ UNCHANGED <<validateVars, rateVars, uploadVars, remoteVars>>

Compression(p) ==
  /\ AtEntry(p, "compression")
  /\ disp' = [disp EXCEPT ![p] = callNext(@, "compression", "none")]
  /\ UNCHANGED <<stack, limiterSetup>>
  /\ UNCHANGED <<validateVars, rateVars, uploadVars, remoteVars>>

\* The request has passed every entry: the route handler runs.
RouteHandler(p) ==
  /\ disp[p].outcome = "pending"
  /\ disp[p].pos > Len(stack)
  /\ disp' = [disp EXCEPT ![p] = [@ EXCEPT !.outcome = "route"]]
  /\ UNCHANGED <<stack, limiterSetup>>
  /\ UNCHANGED <<validateVars, rateVars, uploadVars, remoteVars>>

NextPipeline ==
  \/ ModuleInit
  \/ RateLimiterSetup
  \/ \E p \in Dispatched, ct \in ContentTypes, ok \in BOOLEAN : Arrive(p, ct, ok)
  \/ \E p \in Dispatched : Helmet(p)
  \/ \E p \in Dispatched : NotCallable(p)
  \/ \E p \in Dispatched : BodyParserJson(p)
  \/ \E p \in Dispatched : BodyParserUrlEncoded(p)
  \/ \E p \in Dispatched : Compression(p)
  \/ \E p \in Dispatched : RouteHandler(p)

----------------------------------------------------------------------------
(* fileUploadParser: options, files and the validator of MiddlewareModule.js *)

\* Files in one multipart upload.
MaxUploads == 2

\* getConfig('fileUploadMaxFileSize'), in bytes, scaled to the model's sizes.
fileUploadMaxFileSize == 1

\* getConfig('uploadTempDir')
uploadTempDir == "/tmp/uploads"

Zip == "application/zip"
XZip == "application/x-zip-compressed"

\* get zipTypes ()
zipTypes == <<Zip, XZip>>

\* isZip (mimeType)
isZip(mimeType) == includes(zipTypes, mimeType)

\* The defaults of setDefaultFileOptions, by key.
defaultFileOptions ==
  [maxFileSize |-> fileUploadMaxFileSize, multiples |-> TRUE, uploadDir |-> uploadTempDir,
   promisify |-> FALSE, unzip |-> FALSE, removeZipSource |-> TRUE]

\* Object.prototype.hasOwnProperty.call(options, k): an options object is a
\* function from the keys it owns to their values.
hasOwnProperty(o, k) == k \in DOMAIN o

\* Variant: every default is assigned, whether or not the key is owned.
SetDefaultsOverwrite(o) ==
  [k \in DOMAIN o \cup DOMAIN defaultFileOptions |->
     IF k \in DOMAIN defaultFileOptions THEN defaultFileOptions[k] ELSE o[k]]

\* setDefaultFileOptions: a default is assigned to every key of the list the
\* options object does not own; expectedFileTypes is not in the list.
setDefaultFileOptions(o) ==
  [k \in DOMAIN o \cup DOMAIN defaultFileOptions |->
     IF hasOwnProperty(o, k) THEN o[k] ELSE defaultFileOptions[k]]

\* The keys a caller may pass, and the options objects a route creates the
\* handler with (expectedFileTypes is the handler's first argument, stored
\* on the options object): any subset of the keys, removeZipSource false or
\* true, the others with the value that is not their default.
CallerKeys == {"maxFileSize", "promisify", "unzip", "removeZipSource"}

callerOptions(expected, keys, removeZipSource) ==
  [k \in {"expectedFileTypes"} \cup keys |->
     CASE k = "expectedFileTypes" -> expected
       [] k = "maxFileSize" -> MaxSize
       [] k = "removeZipSource" -> removeZipSource
       [] OTHER -> TRUE]

UploadOptions ==
  {callerOptions(expected, keys, r) :
     expected \in {<<Zip>>, <<Zip, XZip>>, <<Png>>},
     keys \in SUBSET CallerKeys,
     r \in BOOLEAN}

\* The paths formidable stages the parts of an upload under, by the bytes the
\* part carries and its position in the upload.
Staged ==
  [zip |-> <<"/tmp/uploads/1.zip", "/tmp/uploads/2.zip", "/tmp/uploads/3.zip">>,
   png |-> <<"/tmp/uploads/1.png", "/tmp/uploads/2.png", "/tmp/uploads/3.png">>]

NameZip == <<"a", ".", "z", "i", "p">>

\* `${f.filepath}_unzip`
unzipTarget(filepath) ==
  CASE filepath = "/tmp/uploads/1.zip" -> "/tmp/uploads/1.zip_unzip"
    [] filepath = "/tmp/uploads/2.zip" -> "/tmp/uploads/2.zip_unzip"
    [] filepath = "/tmp/uploads/3.zip" -> "/tmp/uploads/3.zip_unzip"
    [] filepath = "/tmp/uploads/1.png" -> "/tmp/uploads/1.png_unzip"
    [] filepath = "/tmp/uploads/2.png" -> "/tmp/uploads/2.png_unzip"
    [] filepath = "/tmp/uploads/3.png" -> "/tmp/uploads/3.png_unzip"

\* The parts of an upload: the mimetype the client declares, the bytes sent
\* and their number.
UploadParts == [mimetype : {Zip, XZip, Png}, bytes : {"zip", "png"}, size : 1..MaxSize]

\* The record formidable makes of the i-th part.
stagedRecord(part, i) ==
  [mimetype |-> part.mimetype,
   filepath |-> Staged[part.bytes][i],
   originalFilename |-> IF part.bytes = "zip" THEN NameZip ELSE NamePng,
   size |-> part.size]

\* The files objects formidable can hand over: up to MaxUploads parts,
\* grouped into form fields in every way.
UploadFilesObjs ==
  {group([i \in DOMAIN parts |-> stagedRecord(parts[i], i)], cuts, 1, <<>>) :
     parts \in UNION {[1..n -> UploadParts] : n \in 0..MaxUploads},
     cuts \in SUBSET (1..(MaxUploads - 1))}

\* The text fields of the form: arrays of the values sent under one name.
\* JSON.parse succeeds on "12" and throws on "abc".
FieldValues == {<<"abc">>, <<"12", "abc">>}

Fields == {<<>>} \cup {<<[name |-> "title", values |-> v]>> : v \in FieldValues}

\* A value of req.body written by the handler: its typeof and its JSON text.
jsValue(typeof, text) == [typeof |-> typeof, text |-> text]

\* JSON.parse(text): the value, or a SyntaxError
JSONparse(text) ==
  CASE text = "12" -> jsValue("number", text)
    [] OTHER -> jsValue("SyntaxError", text)

\* Variant: the first value is stored as it was sent.
FieldValueRaw(values) == jsValue("string", values[1])

\* let val = fields[k][0]; try { val = JSON.parse(val) } catch (e) {}
fieldValue(values) ==
  IF JSONparse(values[1]).typeof = "SyntaxError"
  THEN jsValue("string", values[1])
  ELSE JSONparse(values[1])

\* Object.keys(fields).forEach(k => { ... req.body[k] = val })
RECURSIVE addFields(_, _, _)
addFields(body, fields, i) ==
  IF i > Len(fields) THEN body
  ELSE addFields([k \in DOMAIN body \cup {fields[i].name} |->
                    IF k = fields[i].name THEN fieldValue(fields[i].values) ELSE body[k]],
                 fields, i + 1)

\* Number(undefined): the size of a record made without a content-length
NaN == -1

\* if (!f.size > options.maxFileSize): !f.size is a boolean (true for 0 and
\* for NaN), compared as 0 or 1
notSizeExceeds(f, opts) == (IF f.size \in {0, NaN} THEN 1 ELSE 0) > opts.maxFileSize

\* One callback of the map in validateUploadedFiles (MiddlewareModule.js):
\* the record as the callback leaves it.
validatedRecord(f, opts) ==
  IF ~includes(opts.expectedFileTypes, f.mimetype)
  THEN [f EXCEPT !.mimetype = fileTypeFromFile(f.filepath)]
  ELSE f

\* ... and the violations it pushes.
validatedErrors(f, opts) ==
  LET g == validatedRecord(f, opts)
  IN (IF ~includes(opts.expectedFileTypes, f.mimetype) /\ ~includes(opts.expectedFileTypes, g.mimetype)
      THEN <<[code |-> "UNEXPECTED_FILE_TYPES",
              data |-> [expectedFileTypes |-> opts.expectedFileTypes,
                        invalidFiles |-> <<f.originalFilename>>]]>>
      ELSE <<>>)
     \o (IF notSizeExceeds(g, opts)
         THEN <<[code |-> "FILE_EXCEEDS_MAX_SIZE",
                 data |-> [size |-> bytes(g.size), maxSize |-> bytes(opts.maxFileSize)]]>>
         ELSE <<>>)

\* The files object after validateUploadedFiles has run over it ...
validatedFiles(fo, opts) ==
  [k \in DOMAIN fo |-> [j \in DOMAIN fo[k] |-> validatedRecord(fo[k][j], opts)]]

\* Variant: the validation finds nothing to object to.
ValidationErrorsNone(fo, opts, i) == <<>>

\* ... and assetErrors, in the order of filesArr (the order in which the
\* callbacks push depends on the inspections; the handlers only look at
\* whether the array is empty).
RECURSIVE validationErrors(_, _, _)
validationErrors(fo, opts, i) ==
  IF i > Len(filesArr(fo)) THEN <<>>
  ELSE validatedErrors(fileAt(fo, filesArr(fo)[i]), opts) \o validationErrors(fo, opts, i + 1)

----------------------------------------------------------------------------
(* fileUploadParser: the handler *)

MultipartBoundary == "multipart/form-data; boundary=x"
MultipartMixed == "multipart/mixed"

\* req.headers['content-type'] of the requests the handler is given
UploadContentTypes == {Undefined, Json, MultipartBoundary, MultipartMixed}

\* Variant: any multipart request is parsed (startsWith('multipart/')).
StartsWithMultipartAny(ct) == ct \in {Multipart, MultipartBoundary, MultipartMixed}

\* req.headers['content-type']?.startsWith('multipart/form-data')
startsWithMultipart(ct) == ct \in {Multipart, MultipartBoundary}

\* req.body as the handler finds it
Bodies == {[id |-> "5"]}

IdleUpload ==
  [pc |-> "idle", next |-> <<>>, callerNext |-> 0, promise |-> "pending",
   unhandled |-> FALSE, validated |-> FALSE, checked |-> <<>>, body |-> <<>>,
   unzipping |-> {}, expanded |-> {}, failed |-> {}, removed |-> {}, given |-> <<>>,
   parsed |-> "none", fields |-> <<>>]

InitUpload ==
  /\ upload = IdleUpload
  /\ uploadReq = [contentType |-> Undefined, body |-> <<>>]
  /\ uploadOpts = callerOptions(<<>>, {}, TRUE)
  /\ uploadFiles = <<>>
  /\ uploadDir = {}

\* next(arg) as the handler calls it: the caller's next, or with
\* options.promisify the function that settles the handler's promise
\* (next = e => e ? reject(e) : resolve()).
signalNext(u, o, arg) ==
  [u EXCEPT !.pc = "done",
            !.next = Append(@, arg),
            !.callerNext = IF o.promisify THEN @ ELSE @ + 1,
            !.promise = IF o.promisify /\ @ = "pending"
                        THEN (IF arg = "none" THEN "resolved" ELSE "rejected")
                        ELSE @]

\* The handler is entered: defaults are set on the options object, and a
\* request that is not multipart is handed on at once.
FileUploadRequest(ct, opts, body) ==
  /\ upload.pc = "idle"
  /\ LET o == setDefaultFileOptions(opts)
         u == [upload EXCEPT !.body = body, !.given = opts]
     IN /\ uploadOpts' = o
        /\ uploadReq' = [contentType |-> ct, body |-> body]
        /\ upload' = IF ~startsWithMultipart(ct)
                     THEN signalNext(u, o, "none")
                     ELSE [u EXCEPT !.pc = "mkdir"]
  /\ UNCHANGED <<uploadFiles, uploadDir>>
  /\ UNCHANGED <<validateVars, rateVars, pipelineVars, remoteVars>>

\* await fs.mkdir(options.uploadDir, { recursive: true }): it succeeds, or
\* throws EEXIST (ignored) or another error (handed to next).
MkdirOutcomes == {"ok", "EEXIST", "EACCES"}

UploadMkdir(outcome) ==
  /\ upload.pc = "mkdir"
  /\ upload' = IF outcome = "EACCES"
               THEN signalNext(upload, uploadOpts, outcome)
               ELSE [upload EXCEPT !.pc = "parse"]
  /\ uploadDir' = IF outcome = "ok" THEN uploadDir \cup {uploadOpts.uploadDir} ELSE uploadDir
  /\ UNCHANGED <<uploadReq, uploadOpts, uploadFiles>>
  /\ UNCHANGED <<validateVars, rateVars, pipelineVars, remoteVars>>

RECURSIVE sumSizes(_, _)
sumSizes(fo, i) ==
  IF i > Len(filesArr(fo)) THEN 0
  ELSE fileAt(fo, filesArr(fo)[i]).size + sumSizes(fo, i + 1)

stagedPaths(fo) == {fileAt(fo, ref).filepath : ref \in Seq2Set(filesArr(fo))}

\* formidable(options).parse(req, cb): the parts are streamed to the upload
\* directory and cb is called. options.maxFileSize is formidable's cutoff:
\* no file larger than it is handed over, and error 1009 is raised only when
\* the file data received exceeds it.
ParseOutcomes == {"ok", "1009", "malformed"}

parseCan(outcome, files, o) ==
  CASE outcome = "ok" -> \A ref \in Seq2Set(filesArr(files)) : fileAt(files, ref).size <= o.maxFileSize
    [] outcome = "1009" -> sumSizes(files, 1) > o.maxFileSize
    [] OTHER -> TRUE

\* Variant: the error of formidable is handed on as it is.
ParseErrorRaw(outcome) == "FormidableError"

\* if (error.code === 1009) error = FILE_EXCEEDS_MAX_SIZE.setData({ maxSize, size })
parseError(outcome) ==
  IF outcome = "1009" THEN "FILE_EXCEEDS_MAX_SIZE" ELSE "FormidableError"

\* The callback of parse, up to its first await: an error is handed to next
\* (as FILE_EXCEEDS_MAX_SIZE when its code is 1009); otherwise the fields
\* are added to req.body, and a form without files is handed on.
FormidableParse(outcome, fields, files) ==
  /\ upload.pc = "parse"
  /\ parseCan(outcome, files, uploadOpts)
  /\ uploadDir' = uploadDir \cup stagedPaths(files)
  /\ IF outcome # "ok"
     THEN /\ upload' = signalNext([upload EXCEPT !.parsed = outcome], uploadOpts,
                                  parseError(outcome))
          /\ UNCHANGED <<uploadReq, uploadFiles>>
     ELSE /\ uploadReq' = [uploadReq EXCEPT !.body = addFields(@, fields, 1)]
          /\ uploadFiles' = files
          /\ upload' = IF Len(files) = 0
                       THEN signalNext([upload EXCEPT !.parsed = outcome, !.fields = fields],
                                       uploadOpts, "none")
                       ELSE [upload EXCEPT !.pc = "validate", !.parsed = outcome,
                                           !.fields = fields]
  /\ UNCHANGED uploadOpts
  /\ UNCHANGED <<validateVars, rateVars, pipelineVars, remoteVars>>

\* Object.entries(files).map(async ([k, [f]]) => ...): the fields whose first
\* record is of a zip type
zipFields(fo) == {k \in DOMAIN fo : isZip(fo[k][1].mimetype)}

\* f.mimetype = 'application/zip', which every callback of that map does
\* before it awaits unzip
normalised(fo) ==
  [k \in DOMAIN fo |->
     IF k \in zipFields(fo) THEN [fo[k] EXCEPT ![1].mimetype = Zip] ELSE fo[k]]

\* removeSource: options.removeZipSource || true
removeSource(o) == IF o.removeZipSource THEN o.removeZipSource ELSE TRUE

\* Object.assign(req, { fileUpload: { files } })
attach(req, files) ==
  [k \in DOMAIN req \cup {"fileUpload"} |->
     IF k = "fileUpload" THEN [files |-> files] ELSE req[k]]

\* Variant: the catch block calls next(e) without returning, so the handler
\* goes on to attach the files and call next again.
UploadValidateNoReturn ==
  /\ upload.pc = "validate"
  /\ LET errs == validationErrors(uploadFiles, uploadOpts, 1)
         checked == validatedFiles(uploadFiles, uploadOpts)
         u == IF errs # <<>>
              THEN signalNext(upload, uploadOpts, "VALIDATION_FAILED")
              ELSE [upload EXCEPT !.validated = TRUE, !.checked = checked]
     IN /\ uploadFiles' = checked
        /\ uploadReq' = attach(uploadReq, checked)
        /\ upload' = signalNext(u, uploadOpts, "none")
  /\ UNCHANGED <<uploadOpts, uploadDir>>
  /\ UNCHANGED <<validateVars, rateVars, pipelineVars, remoteVars>>

\* await validateUploadedFiles(req, files, options) and what follows it
\* without waiting: a failure is handed to next; otherwise, with
\* options.unzip, every zip field is normalised and its extraction started,
\* and without it the files are attached to the request and next is called.
UploadValidate ==
  /\ upload.pc = "validate"
  /\ LET errs == validationErrors(uploadFiles, uploadOpts, 1)
         checked == validatedFiles(uploadFiles, uploadOpts)
         u == [upload EXCEPT !.validated = TRUE, !.checked = checked]
     IN IF errs # <<>>
        THEN /\ uploadFiles' = checked
             /\ upload' = signalNext(upload, uploadOpts, "VALIDATION_FAILED")
             /\ UNCHANGED uploadReq
        ELSE IF uploadOpts.unzip
        THEN /\ uploadFiles' = normalised(checked)
             /\ upload' = [u EXCEPT !.pc = "unzip", !.unzipping = zipFields(checked)]
             /\ UNCHANGED uploadReq
        ELSE /\ uploadFiles' = checked
             /\ uploadReq' = attach(uploadReq, checked)
             /\ upload' = signalNext(u, uploadOpts, "none")
  /\ UNCHANGED <<uploadOpts, uploadDir>>
  /\ UNCHANGED <<validateVars, rateVars, pipelineVars, remoteVars>>

\* unzip(f.filepath, `${f.filepath}_unzip`, { removeSource }) settles for the
\* file of field k. Fulfilled: the archive is extracted beside it, the source
\* is deleted when removeSource is set, and f.filepath becomes the directory.
\* Rejected (bytes that are no archive, a corrupt archive, a directory that
\* cannot be made): Promise.all rejects inside the callback of parse, which
\* nothing awaits and nothing catches, so next is not called.
UnzipSettle(k, ok) ==
  /\ upload.pc \in {"unzip", "crashed"}
  /\ k \in upload.unzipping
  /\ LET f == uploadFiles[k][1]
     IN /\ ok => fileTypeFromFile(f.filepath) = Zip
        /\ IF ok
           THEN /\ uploadFiles' = [uploadFiles EXCEPT ![k][1].filepath = unzipTarget(f.filepath)]
                /\ uploadDir' = (uploadDir \cup {unzipTarget(f.filepath)})
                                  \ (IF removeSource(uploadOpts) THEN {f.filepath} ELSE {})
                /\ upload' = [upload EXCEPT !.unzipping = @ \ {k},
                                            !.expanded = @ \cup {k},
                                            !.removed = @ \cup (IF removeSource(uploadOpts) THEN {k} ELSE {})]
           ELSE /\ upload' = [upload EXCEPT !.unzipping = @ \ {k},
                                            !.failed = @ \cup {k},
                                            !.pc = "crashed",
                                            !.unhandled = TRUE]
                /\ UNCHANGED <<uploadFiles, uploadDir>>
  /\ UNCHANGED <<uploadReq, uploadOpts>>
  /\ UNCHANGED <<validateVars, rateVars, pipelineVars, remoteVars>>

\* Promise.all has fulfilled: the files are attached and next is called.
UploadAttach ==
  /\ upload.pc = "unzip"
  /\ upload.unzipping = {}
  /\ uploadReq' = attach(uploadReq, uploadFiles)
  /\ upload' = signalNext(upload, uploadOpts, "none")
  /\ UNCHANGED <<uploadOpts, uploadFiles, uploadDir>>
  /\ UNCHANGED <<validateVars, rateVars, pipelineVars, remoteVars>>

NextFileUpload ==
  \/ \E ct \in UploadContentTypes, opts \in UploadOptions, body \in Bodies :
       FileUploadRequest(ct, opts, body)
  \/ \E outcome \in MkdirOutcomes : UploadMkdir(outcome)
  \/ \E outcome \in ParseOutcomes, fields \in Fields, files \in UploadFilesObjs :
       FormidableParse(outcome, fields, files)
  \/ UploadValidate
  \/ \E k \in 1..MaxUploads, ok \in BOOLEAN : UnzipSettle(k, ok)
  \/ UploadAttach

----------------------------------------------------------------------------
(* urlUploadParser: the handler *)

Html == "text/html"

\* What axios.get(req.body.url, { responseType: 'stream' }) can come to: a
\* response with its content-type and content-length headers and the bytes
\* of its body, or an error. An HTTP error carries e.response; an invalid
\* URL and a transport failure (nothing received) carry none.
NoResponse == [kind |-> "none"]

RemoteResponses ==
  [kind : {"response"}, contentType : {Png, Zip, Html, Undefined}, bytes : {"png", "zip"},
   contentLength : (1..MaxSize) \cup {NaN}]

RemoteErrors ==
  {[kind |-> "error", code |-> "ERR_INVALID_URL", hasResponse |-> FALSE, status |-> 0],
   [kind |-> "error", code |-> "ECONNREFUSED", hasResponse |-> FALSE, status |-> 0],
   [kind |-> "error", code |-> "ERR_BAD_REQUEST", hasResponse |-> TRUE, status |-> 404],
   [kind |-> "error", code |-> "ERR_BAD_RESPONSE", hasResponse |-> TRUE, status |-> 500]}

\* The catch block of the fetch:
\*   if (e.code === 'ERR_INVALID_URL' || e.response.status === 404) return next(INVALID_ASSET_URL)
\*   return next(e)
\* Reading e.response.status of an error without a response throws a
\* TypeError inside the catch block.
fetchCatch(e) ==
  IF e.code = "ERR_INVALID_URL" THEN "INVALID_ASSET_URL"
  ELSE IF ~e.hasResponse THEN "TypeError"
  ELSE IF e.status = 404 THEN "INVALID_ASSET_URL"
  ELSE e.code

\* contentType.split('/')[1]
subtypeOf(contentType) ==
  CASE contentType = Png -> "png"
    [] contentType = Zip -> "zip"
    [] contentType = Html -> "html"

\* The type the bytes of the body carry in their signature.
signatureOf(b) == IF b = "zip" THEN Zip ELSE Png

\* path.resolve(options.uploadDir, `${new Date().getTime()}.${subtype}`)
uploadPathAt(o, t, subtype) == [dir |-> o.uploadDir, name |-> <<t, subtype>>]

uploadPathOf(o, subtype) == uploadPathAt(o, now, subtype)

dirPath(o) == [dir |-> o.uploadDir, name |-> <<>>]

NoFileData == [fields |-> "none", files |-> [file |-> <<>>]]

\* const fileData = { fields: req.apiData.data, files: { file: [{ ... }] } }
fileDataOf(o, response) ==
  [fields |-> "req.apiData.data",
   files |-> [file |-> <<[filepath |-> uploadPathOf(o, subtypeOf(response.contentType)),
                          originalFilename |-> <<now, subtypeOf(response.contentType)>>,
                          newFilename |-> <<now, subtypeOf(response.contentType)>>,
                          mimetype |-> response.contentType,
                          size |-> response.contentLength]>>]]

\* createWriteStream(uploadPath) made by request `by`
writeStream(by, uploadPath) == [by |-> by, path |-> uploadPath]

\* A second request served by the same handler while the first is under
\* way, followed as far as its staged file is concerned: its fetch, the
\* path it computes, its write stream (the field second of the record).
IdleRemote ==
  [pc |-> "idle", next |-> <<>>, callerNext |-> 0, promise |-> "pending",
   unhandled |-> FALSE, response |-> NoResponse, fileData |-> NoFileData,
   validating |-> "none", unzipStarted |-> FALSE,
   second |-> [pc |-> "idle", uploadPath |-> [dir |-> "", name |-> <<>>]],
   streams |-> {}]

InitRemote ==
  /\ remote = IdleRemote
  /\ remoteReq = [body |-> <<>>]
  /\ remoteOpts = callerOptions(<<>>, {}, TRUE)
  /\ remoteDir = {}

\* The options a route creates the handler with.
RemoteOptions ==
  {callerOptions(expected, keys, TRUE) :
     expected \in {<<Png>>, <<Zip>>},
     keys \in SUBSET {"promisify", "unzip"}}

\* req.body of the requests the handler is given
RemoteBodies == {[id |-> "5"], [id |-> "5", url |-> "http://remote/asset"]}

\* Variant: the fetch is issued whatever the body holds.
HasUrlAlways(body) == TRUE

\* req.body.url
hasUrl(body) == "url" \in DOMAIN body

\* An error thrown where nothing catches it: inside the async executor of
\* the handler's promise or inside an async event callback. The run stops
\* with next not called and the promise left pending.
crash(u) == [u EXCEPT !.pc = "crashed", !.unhandled = TRUE]

\* The handler is entered: defaults are set on the options object, and a
\* request without a url in its body is handed on at once.
UrlUploadRequest(body, opts) ==
  /\ remote.pc = "idle"
  /\ LET o == setDefaultFileOptions(opts)
     IN /\ remoteOpts' = o
        /\ remoteReq' = [body |-> body]
        /\ remote' = IF ~hasUrl(body)
                     THEN signalNext(remote, o, "none")
                     ELSE [remote EXCEPT !.pc = "fetch"]
  /\ UNCHANGED remoteDir
  /\ UNCHANGED <<validateVars, rateVars, pipelineVars, uploadVars>>

\* validateUploadedFiles(req, fileData.files, options), called without await:
\* it runs up to its first await and its promise is dropped. A record whose
\* mimetype is expected is size-checked at once and the promise settles; one
\* whose mimetype is not waits for fileTypeFromFile.
validationStarted(fileData, o) ==
  LET f == fileData.files.file[1]
  IN IF ~includes(o.expectedFileTypes, f.mimetype) THEN "pending"
     ELSE IF notSizeExceeds(f, o) THEN "rejected"
     ELSE "fulfilled"

\* axios.get settles. An error goes through the catch block. A response
\* lets the handler run on to its next await (fs.mkdir): it reads the
\* headers, builds fileData and starts the validation. A response without a
\* content-type header makes contentType.split throw.
AxiosGet(result) ==
  /\ remote.pc = "fetch"
  /\ LET u == [remote EXCEPT !.response = result]
     IN remote' =
          IF result.kind = "error"
          THEN (IF fetchCatch(result) = "TypeError" THEN crash(u)
                ELSE signalNext(u, remoteOpts, fetchCatch(result)))
          ELSE IF result.contentType = Undefined THEN crash(u)
          ELSE [u EXCEPT !.pc = "mkdir",
                         !.fileData = fileDataOf(remoteOpts, result),
                         !.validating = validationStarted(fileDataOf(remoteOpts, result), remoteOpts)]
  /\ UNCHANGED <<remoteReq, remoteOpts, remoteDir>>
  /\ UNCHANGED <<validateVars, rateVars, pipelineVars, uploadVars>>

\* fileTypeFromFile(uploadPath) settles inside the dropped validation: it
\* rejects when the file does not exist yet, and otherwise reads whatever
\* has been written so far (nothing recognisable, or the signature of the
\* body). The validation then fulfils or rejects; the handler sees neither.
RemoteSniff(outcome) ==
  /\ remote.validating = "pending"
  /\ LET f == remote.fileData.files.file[1]
     IN IF f.filepath \notin remoteDir
        THEN /\ outcome = "ENOENT"
             /\ remote' = [remote EXCEPT !.validating = "rejected"]
        ELSE /\ outcome \in {Undefined, signatureOf(remote.response.bytes)}
             /\ remote' = [remote EXCEPT
                             !.fileData.files.file[1].mimetype = outcome,
                             !.validating =
                               IF ~includes(remoteOpts.expectedFileTypes, outcome)
                                  \/ notSizeExceeds(f, remoteOpts)
                               THEN "rejected" ELSE "fulfilled"]
  /\ UNCHANGED <<remoteReq, remoteOpts, remoteDir>>
  /\ UNCHANGED <<validateVars, rateVars, pipelineVars, uploadVars>>

\* await fs.mkdir(options.uploadDir, { recursive: true }) and
\* createWriteStream(uploadPath). EEXIST is swallowed by the catch block with
\* fileStream still undefined, so responseData.pipe(fileStream) throws;
\* any other error is handed to next.
RemoteMkdir(outcome) ==
  /\ remote.pc = "mkdir"
  /\ remote' = CASE outcome = "ok" ->
                      [remote EXCEPT
                         !.pc = "stream",
                         !.streams = @ \cup {writeStream("first",
                                                remote.fileData.files.file[1].filepath)}]
                 [] outcome = "EEXIST" -> crash(remote)
                 [] OTHER -> signalNext(remote, remoteOpts, outcome)
  /\ remoteDir' = IF outcome = "ok"
                  THEN remoteDir \cup {dirPath(remoteOpts), remote.fileData.files.file[1].filepath}
                  ELSE remoteDir
  /\ UNCHANGED <<remoteReq, remoteOpts>>
  /\ UNCHANGED <<validateVars, rateVars, pipelineVars, uploadVars>>

\* .on('error', next): the write stream fails. A 'close' event may follow.
StreamError ==
  /\ remote.pc = "stream"
  /\ remote' = [signalNext(remote, remoteOpts, "StreamError") EXCEPT !.pc = "errored"]
  /\ UNCHANGED <<remoteReq, remoteOpts, remoteDir>>
  /\ UNCHANGED <<validateVars, rateVars, pipelineVars, uploadVars>>

\* req.fileUpload = fileData (the object itself, not a copy)
attachFileData(req) ==
  [k \in DOMAIN req \cup {"fileUpload"} |-> IF k = "fileUpload" THEN "fileData" ELSE req[k]]

\* .on('close', async () => { ... }): fileData is attached; for a zip subtype
\* with options.unzip the statement
\*   req.fileUpload.files.course.filepath = await unzip(...)
\* throws, as files has no key course (whether unzip was called before the
\* throw depends on the engine's order of evaluation); otherwise next().
StreamClose ==
  /\ remote.pc \in {"stream", "errored"}
  /\ remoteReq' = attachFileData(remoteReq)
  /\ LET closed == [remote EXCEPT
                      !.streams = @ \ {writeStream("first",
                                          remote.fileData.files.file[1].filepath)}]
     IN IF subtypeOf(remote.response.contentType) = "zip" /\ remoteOpts.unzip
        THEN \E started \in BOOLEAN :
               remote' = [crash(closed) EXCEPT !.unzipStarted = started]
        ELSE remote' = signalNext(closed, remoteOpts, "none")
  /\ UNCHANGED <<remoteOpts, remoteDir>>
  /\ UNCHANGED <<validateVars, rateVars, pipelineVars, uploadVars>>

NextUrlUpload ==
  \/ \E body \in RemoteBodies, opts \in RemoteOptions : UrlUploadRequest(body, opts)
  \/ \E result \in RemoteResponses \cup RemoteErrors : AxiosGet(result)
  \/ \E outcome \in {"ENOENT", Undefined, Png, Zip} : RemoteSniff(outcome)
  \/ \E outcome \in MkdirOutcomes : RemoteMkdir(outcome)
  \/ StreamError
  \/ StreamClose

----------------------------------------------------------------------------
(* urlUploadParser: two requests at once *)

\* The milliseconds that may pass between the clock readings of two requests.
MaxLag == 1

\* The second request's axios.get fulfils `lag` ms after the first request
\* read the clock, with a response of the given content-type: lines 215-218
\* compute its uploadPath from the handler's options and the clock.
SecondFetch(lag, contentType) ==
  /\ remote.pc \notin {"idle", "fetch"}
  /\ remote.second.pc = "idle"
  /\ remote' = [remote EXCEPT
                  !.second = [pc |-> "mkdir",
                              uploadPath |-> uploadPathAt(remoteOpts, now + lag,
                                                          subtypeOf(contentType))]]
  /\ UNCHANGED <<remoteReq, remoteOpts, remoteDir>>
  /\ UNCHANGED <<validateVars, rateVars, pipelineVars, uploadVars>>

\* The second request's createWriteStream(uploadPath) and pipe: the file at
\* the path is opened for writing (and truncated).
SecondStream ==
  /\ remote.second.pc = "mkdir"
  /\ remote' = [remote EXCEPT
                  !.second.pc = "stream",
                  !.streams = @ \cup {writeStream("second", remote.second.uploadPath)}]
  /\ remoteDir' = remoteDir \cup {dirPath(remoteOpts), remote.second.uploadPath}
  /\ UNCHANGED <<remoteReq, remoteOpts>>
  /\ UNCHANGED <<validateVars, rateVars, pipelineVars, uploadVars>>

\* The second request's stream closes.
SecondClose ==
  /\ remote.second.pc = "stream"
  /\ remote' = [remote EXCEPT
                  !.second.pc = "done",
                  !.streams = @ \ {writeStream("second", remote.second.uploadPath)}]
  /\ UNCHANGED <<remoteReq, remoteOpts, remoteDir>>
  /\ UNCHANGED <<validateVars, rateVars, pipelineVars, uploadVars>>

NextUrlUploads ==
  \/ NextUrlUpload
  \/ \E lag \in 0..MaxLag, contentType \in {Png, Zip} : SecondFetch(lag, contentType)
  \/ SecondStream
  \/ SecondClose

InitValidateIdle ==
  /\ vpc = "idle"
  /\ awaiting = {}
  /\ assetErrors = <<>>
  /\ inspected = {}
  /\ redeclared = FALSE
  /\ log = <<>>

InitHandlers ==
  /\ InitPipeline
  /\ InitUpload
  /\ InitRemote

\* validateUploadedFiles on every files object and policy of the model
InitValidate ==
  /\ filesObj \in FilesObjs
  /\ options \in Policies
  /\ callStart = filesObj
  /\ InitValidateIdle
  /\ InitRate
  /\ InitHandlers

NextValidate ==
  \/ ValidateCall
  \/ \E ref \in awaiting : SniffResolve(ref)
  \/ ValidateSettle
  \/ Redeclare

SpecValidate == InitValidate /\ [][NextValidate]_vars

\* The rate limiter's handler under concurrent requests; the validator is idle.
InitRateLimit ==
  /\ InitRate
  /\ filesObj = <<>>
  /\ options = [expectedFileTypes |-> <<>>, maxFileSize |-> 0]
  /\ callStart = <<>>
  /\ InitValidateIdle
  /\ InitHandlers

SpecRateLimit == InitRateLimit /\ [][NextRateLimit]_vars

\* No validation and no rate limiting is under way.
InitQuiet ==
  /\ InitRate
  /\ filesObj = <<>>
  /\ options = [expectedFileTypes |-> <<>>, maxFileSize |-> 0]
  /\ callStart = <<>>
  /\ InitValidateIdle

\* init and the dispatch of requests through the stack it registers.
InitPipelineSpec ==
  /\ InitQuiet
  /\ InitHandlers

SpecPipeline == InitPipelineSpec /\ [][NextPipeline]_vars

\* One request served by a fileUploadParser handler.
InitFileUpload ==
  /\ InitQuiet
  /\ InitHandlers

SpecFileUpload == InitFileUpload /\ [][NextFileUpload]_vars

\* One request served by a urlUploadParser handler.
InitUrlUpload ==
  /\ InitQuiet
  /\ InitHandlers

SpecUrlUpload == InitUrlUpload /\ [][NextUrlUpload]_vars

\* Two requests served at once by a urlUploadParser handler.
SpecUrlUploads == InitUrlUpload /\ [][NextUrlUploads]_vars

----------------------------------------------------------------------------
(* Properties of validateUploadedFiles *)

Refs(fo) == Seq2Set(filesArr(fo))

CountCode(errs, code) == Cardinality({i \in DOMAIN errs : errs[i].code = code})

CountOf(errs, x) == Cardinality({i \in DOMAIN errs : errs[i] = x})

SameBag(a, b) ==
  \A x \in Seq2Set(a) \cup Seq2Set(b) : CountOf(a, x) = CountOf(b, x)

Allowed(e, m) == \E i \in DOMAIN e.options.expectedFileTypes : e.options.expectedFileTypes[i] = m

\* The type the bytes and the name of a record give it: the sniffed type, or
\* application/x-subrip for an unsniffable file named *.srt.
ResultType(f) ==
  IF fileTypeFromFile(f.filepath) # Undefined THEN fileTypeFromFile(f.filepath)
  ELSE IF Len(f.originalFilename) > 4
          /\ SubSeq(f.originalFilename, Len(f.originalFilename) - 3, Len(f.originalFilename)) = <<".", "s", "r", "t">>
       THEN Subrip
       ELSE Undefined

\* Two files objects with the same bytes, names and sizes, field by field.
SameButMimetype(a, b) ==
  /\ DOMAIN a = DOMAIN b
  /\ \A k \in DOMAIN a :
       /\ DOMAIN a[k] = DOMAIN b[k]
       /\ \A j \in DOMAIN a[k] :
            /\ a[k][j].filepath = b[k][j].filepath
            /\ a[k][j].originalFilename = b[k][j].originalFilename
            /\ a[k][j].size = b[k][j].size

Accepted(e) == e.thrown = <<>>

\* C1 (as claimed): two files objects that differ only in the declared
\* mimetypes get the same accept/reject outcome under the same policy.
C1_DeclaredTypeNeverDecides ==
  \A i, j \in DOMAIN log :
    (SameButMimetype(log[i].before, log[j].before) /\ log[i].options = log[j].options)
      => (Accepted(log[i]) <=> Accepted(log[j]))

\* C1 (amended): the declared mimetype decides only through its membership
\* in expectedFileTypes: two files objects that differ only in the declared
\* mimetypes, each file's declared type being allowed in both or in neither,
\* get the same outcome.
C1_DeclaredTypeDecidesByMembershipOnly ==
  \A i, j \in DOMAIN log :
    ( /\ SameButMimetype(log[i].before, log[j].before)
      /\ log[i].options = log[j].options
      /\ \A ref \in Refs(log[i].before) :
           Allowed(log[i], fileAt(log[i].before, ref).mimetype)
             <=> Allowed(log[j], fileAt(log[j].before, ref).mimetype) )
      => (Accepted(log[i]) <=> Accepted(log[j]))

\* C1 witness: two completed calls on records that differ in a declared
\* mimetype, both declared types outside expectedFileTypes.
C1_Witness ==
  \E i, j \in DOMAIN log :
    /\ i < j
    /\ log[j].redeclared
    /\ SameButMimetype(log[i].before, log[j].before)
    /\ \E ref \in Refs(log[i].before) :
         /\ fileAt(log[i].before, ref).mimetype # fileAt(log[j].before, ref).mimetype
         /\ ~Allowed(log[i], fileAt(log[i].before, ref).mimetype)
         /\ ~Allowed(log[j], fileAt(log[j].before, ref).mimetype)
    /\ \A ref \in Refs(log[i].before) :
         Allowed(log[i], fileAt(log[i].before, ref).mimetype)
           <=> Allowed(log[j], fileAt(log[j].before, ref).mimetype)

TypeViolators(e) ==
  {ref \in Refs(e.before) :
     /\ ~Allowed(e, fileAt(e.before, ref).mimetype)
     /\ ~Allowed(e, ResultType(fileAt(e.before, ref)))}

SizeViolators(e) ==
  {ref \in Refs(e.before) : fileAt(e.before, ref).size > e.options.maxFileSize}

\* C2: a call raises at most one VALIDATION_FAILED, and that one error
\* carries every violation: one type violation for each file whose type
\* fails and one size violation for each file over the limit, a file that
\* fails both counting twice.
C2_OneFailureCarriesAllViolations ==
  \A i \in DOMAIN log :
    LET e == log[i]
    IN /\ Len(e.thrown) <= 1
       /\ Len(e.thrown) = 1 <=> (TypeViolators(e) \cup SizeViolators(e)) # {}
       /\ Len(e.thrown) = 1 =>
            /\ e.thrown[1].code = "VALIDATION_FAILED"
            /\ Len(e.thrown[1].data.errors) = Cardinality(TypeViolators(e)) + Cardinality(SizeViolators(e))
            /\ CountCode(e.thrown[1].data.errors, "UNEXPECTED_FILE_TYPES") = Cardinality(TypeViolators(e))
            /\ CountCode(e.thrown[1].data.errors, "FILE_EXCEEDS_MAX_SIZE") = Cardinality(SizeViolators(e))

\* C2 witness: one call over two files, one violating only the type and the
\* other only the size, ended in a single failure.
C2_Witness ==
  \E i \in DOMAIN log :
    /\ Len(log[i].thrown) = 1
    /\ \E a, b \in Refs(log[i].before) :
         /\ a # b
         /\ a \in TypeViolators(log[i]) /\ a \notin SizeViolators(log[i])
         /\ b \in SizeViolators(log[i]) /\ b \notin TypeViolators(log[i])

\* C3: a size violation is recorded for a file exactly when its size is
\* greater than maxFileSize: a single file of an allowed type passes at
\* size = maxFileSize and fails with exactly one FILE_EXCEEDS_MAX_SIZE at
\* size = maxFileSize + 1.
C3_SizeBoundary ==
  \A i \in DOMAIN log :
    LET e == log[i]
    IN /\ CountCode(e.errors, "FILE_EXCEEDS_MAX_SIZE")
            = Cardinality({ref \in Refs(e.before) : fileAt(e.before, ref).size >= e.options.maxFileSize + 1})
       /\ \A ref \in Refs(e.before) :
            (Cardinality(Refs(e.before)) = 1 /\ Allowed(e, fileAt(e.before, ref).mimetype)) =>
               /\ fileAt(e.before, ref).size = e.options.maxFileSize => Accepted(e)
               /\ fileAt(e.before, ref).size = e.options.maxFileSize + 1 =>
                    /\ Len(e.thrown) = 1
                    /\ Len(e.errors) = 1
                    /\ e.errors[1].code = "FILE_EXCEEDS_MAX_SIZE"

\* C3 witness: a single file of an allowed type, one byte over the limit,
\* has been validated.
C3_Witness ==
  \E i \in DOMAIN log :
    /\ Cardinality(Refs(log[i].before)) = 1
    /\ \E ref \in Refs(log[i].before) :
         /\ Allowed(log[i], fileAt(log[i].before, ref).mimetype)
         /\ fileAt(log[i].before, ref).size = log[i].options.maxFileSize + 1
    /\ ~Accepted(log[i])

\* C4: a file whose declared mimetype is not allowed is inspected before the
\* decision, its type becomes the sniffed type (application/x-subrip for an
\* unsniffable *.srt), and a type violation is recorded exactly when that
\* type is not allowed either; files of an allowed declared type are not
\* inspected.
C4_InspectBeforeReject ==
  \A i \in DOMAIN log :
    LET e == log[i]
    IN /\ e.inspected = {ref \in Refs(e.before) : ~Allowed(e, fileAt(e.before, ref).mimetype)}
       /\ \A ref \in e.inspected :
            fileAt(e.after, ref).mimetype = ResultType(fileAt(e.before, ref))
       /\ CountCode(e.errors, "UNEXPECTED_FILE_TYPES")
            = Cardinality({ref \in e.inspected : ~Allowed(e, ResultType(fileAt(e.before, ref)))})
       /\ \A x \in Seq2Set(e.errors) :
            x.code = "UNEXPECTED_FILE_TYPES" =>
              \E ref \in e.inspected :
                /\ x.data.mimetypes = <<ResultType(fileAt(e.before, ref))>>
                /\ x.data.invalidFiles = <<fileAt(e.before, ref).originalFilename>>

\* C4 witness: an unsniffable *.srt file declared with a type that is not
\* allowed has passed, application/x-subrip being allowed.
C4_Witness ==
  \E i \in DOMAIN log :
    /\ Accepted(log[i])
    /\ \E ref \in log[i].inspected :
         /\ fileTypeFromFile(fileAt(log[i].before, ref).filepath) = Undefined
         /\ fileAt(log[i].before, ref).originalFilename = NameSrt
         /\ fileAt(log[i].after, ref).mimetype = Subrip

\* C5: a call with an empty files object records no violation and raises no
\* error, whatever the policy.
C5_EmptyFilesSucceed ==
  \A i \in DOMAIN log :
    log[i].before = <<>> => (log[i].thrown = <<>> /\ log[i].errors = <<>>)

\* C5 witness: a call with an empty files object has completed.
C5_Witness ==
  \E i \in DOMAIN log : log[i].before = <<>> /\ log[i].after = <<>>

\* C6: a second call on the records the first call left gives the same
\* outcome: both succeed, or both fail with the same violations (as a bag:
\* the order of the violations is the order the inspections happen to end in).
C6_Idempotent ==
  \A i \in DOMAIN log :
    (i + 1 \in DOMAIN log /\ ~log[i + 1].redeclared) =>
      /\ Accepted(log[i]) <=> Accepted(log[i + 1])
      /\ SameBag(log[i].errors, log[i + 1].errors)

\* C6 witness: two calls in succession on the same records, the first of
\* which overwrote a mimetype and failed.
C6_Witness ==
  \E i \in DOMAIN log :
    /\ i + 1 \in DOMAIN log
    /\ ~log[i + 1].redeclared
    /\ log[i].after # log[i].before
    /\ log[i + 1].before = log[i].after
    /\ ~Accepted(log[i])

\* C7 (as claimed): a successful call leaves every field of every file
\* record, mimetype included, and the policy as they were.
C7_SuccessChangesNothing ==
  \A i \in DOMAIN log :
    Accepted(log[i]) => (log[i].after = log[i].before /\ log[i].options = options)

\* C7 (amended): a successful call leaves the policy and every field of
\* every record but mimetype as they were; the mimetype of a record whose
\* declared type is allowed is kept, and that of a record whose declared
\* type is not allowed is overwritten with the inspected type.
C7_SuccessChangesOnlyInspectedMimetype ==
  \A i \in DOMAIN log :
    LET e == log[i]
    IN Accepted(e) =>
         /\ e.options = options
         /\ SameButMimetype(e.before, e.after)
         /\ \A ref \in Refs(e.before) :
              IF Allowed(e, fileAt(e.before, ref).mimetype)
              THEN fileAt(e.after, ref).mimetype = fileAt(e.before, ref).mimetype
              ELSE /\ fileAt(e.after, ref).mimetype = ResultType(fileAt(e.before, ref))
                   /\ Allowed(e, fileAt(e.after, ref).mimetype)

\* C7 witness: a successful call that overwrote the mimetype of one record
\* and kept that of another.
C7_Witness ==
  \E i \in DOMAIN log :
    /\ Accepted(log[i])
    /\ \E a, b \in Refs(log[i].before) :
         /\ fileAt(log[i].after, a).mimetype # fileAt(log[i].before, a).mimetype
         /\ Allowed(log[i], fileAt(log[i].before, b).mimetype)

----------------------------------------------------------------------------
(* Properties of the rate limiter *)

\* The requests counted under identity ip in the window that ends at w.
InWindow(ip, w) == {r \in Requests : reqs[r].key = ip /\ reqs[r].window = w}

Finished(r) == reqs[r].pc \in {"done", "threw"}

Admitted(S) == {r \in S : reqs[r].nextCalls >= 1}

Min(a, b) == IF a <= b THEN a ELSE b

WindowEnds == {reqs[r].window : r \in Requests} \ {-1}

\* C8: of the requests of one identity counted in one window, never more
\* than the quota are admitted; once they have all been handled, exactly
\* min(attempts, quota) were admitted (next called once each) and every other
\* one was refused without next being called: quota + 1 concurrent requests
\* end as quota admitted and one refused in every interleaving.
C8_ExactlyQuotaAdmitted ==
  \A ip \in IPs, w \in WindowEnds :
    LET S == InWindow(ip, w)
    IN /\ Cardinality(Admitted(S)) <= apiRequestLimit
       /\ \A r \in S : reqs[r].nextCalls <= 1
       /\ (\A r \in S : Finished(r)) =>
            /\ Cardinality(Admitted(S)) = Min(Cardinality(S), apiRequestLimit)
            /\ Cardinality({r \in S : reqs[r].pc = "threw" /\ reqs[r].nextCalls = 0})
                 = Cardinality(S) - Min(Cardinality(S), apiRequestLimit)

\* C8 witness: quota + 1 requests of one identity, counted at the same clock
\* reading in a window that was empty, have all been handled.
C8_Witness ==
  \E ip \in IPs, w \in WindowEnds :
    LET S == InWindow(ip, w)
    IN /\ Cardinality(S) = apiRequestLimit + 1
       /\ \A r \in S : Finished(r)
       /\ \A r, q \in S : reqs[r].at = reqs[q].at
       /\ Cardinality(Admitted(S)) = apiRequestLimit

Live(rec) == rec # NoRecord /\ rec.expire > now

\* C9 (as claimed): the stored count of an identity is at most quota + 1.
C9_CountAtMostQuotaPlusOne ==
  \A ip \in IPs : store[ip].points <= apiRequestLimit + 1

\* C9 (amended): the stored count of an identity is the number of admission
\* attempts counted in its window, the refused ones included, and so is not
\* bounded by the quota; the number of those attempts that were admitted is
\* at most the quota.
C9_CountIsAttemptsInWindow ==
  \A ip \in IPs :
    /\ store[ip].points = Cardinality({r \in Requests : reqs[r].ip = ip /\ reqs[r].at >= 0 /\ reqs[r].window = store[ip].expire})
    /\ Cardinality({r \in Requests : reqs[r].ip = ip /\ reqs[r].window = store[ip].expire /\ reqs[r].nextCalls >= 1})
         <= apiRequestLimit

\* C9 witness: an identity's stored count is above quota + 1.
C9_Witness ==
  \E ip \in IPs :
    /\ store[ip].points > apiRequestLimit + 1
    /\ \A r \in InWindow(ip, store[ip].expire) : Finished(r)

\* C10: the window is fixed. It ends apiRequestLimitDuration after the first
\* request counted in it, whenever the later ones arrive; every request is
\* counted in a window that has not ended when it is counted; the first
\* request of a window is counted as 1 and is admitted, the n-th as n.
C10_FixedWindow ==
  /\ \A r \in Requests :
       reqs[r].at >= 0 =>
         /\ reqs[r].at < reqs[r].window
         /\ reqs[r].window <= reqs[r].at + apiRequestLimitDuration
         /\ reqs[r].data.consumedPoints = 1 => reqs[r].window = reqs[r].at + apiRequestLimitDuration
         /\ reqs[r].data.consumedPoints = 1 => reqs[r].pc \in {"resolved", "done"}
         /\ reqs[r].data.msBeforeNext = reqs[r].window - reqs[r].at
  /\ \A ip \in IPs, w \in WindowEnds :
       LET S == InWindow(ip, w)
       IN /\ {reqs[r].data.consumedPoints : r \in S} = 1..Cardinality(S)
          /\ \A r, q \in S :
               reqs[q].data.consumedPoints = 1 =>
                 (reqs[r].at >= reqs[q].at /\ reqs[r].window = reqs[q].at + apiRequestLimitDuration)
  /\ \A ip \in IPs : store[ip] # NoRecord => store[ip].expire \in WindowEnds

\* C10 witness: an identity that exhausted its window (one of its requests
\* was refused in it, after the window's start) has a request admitted as
\* the first of a new window, counted when the old one had just ended.
C10_Witness ==
  \E r, q, p \in Requests :
    /\ reqs[r].ip = reqs[q].ip /\ reqs[p].ip = reqs[q].ip
    /\ reqs[q].pc = "threw"
    /\ reqs[q].window = reqs[p].window
    /\ reqs[p].data.consumedPoints = 1
    /\ reqs[q].at > reqs[p].at
    /\ reqs[r].at = reqs[q].window
    /\ reqs[r].data.consumedPoints = 1
    /\ reqs[r].pc = "done"
    /\ reqs[r].nextCalls = 1

\* The requests consume refused: more points consumed than the quota.
Refused(r) == reqs[r].data.consumedPoints > rateLimiterPoints

HeaderNames == {"RetryAfter", "XRateLimitLimit", "XRateLimitRemaining", "XRateLimitReset"}

\* C11 (as claimed): whenever the rate limiter rejects a request, the client
\* receives a RATE_LIMIT_EXCEEDED (429) error carrying the reset time, and
\* the response carries the Retry-After, X-RateLimit-Limit,
\* X-RateLimit-Remaining and X-RateLimit-Reset headers. Violated: the catch
\* block ends in a ReferenceError with no response and no header.
C11_RejectionAnswered ==
  \A r \in Requests :
    Finished(r) /\ Refused(r) =>
      /\ reqs[r].response = "RATE_LIMIT_EXCEEDED"
      /\ reqs[r].headers # NoHeaders
      /\ DOMAIN reqs[r].headers = HeaderNames

----------------------------------------------------------------------------
(* Properties of the middleware stack *)

BodyParsers == {"bodyParserJson", "bodyParserUrlEncoded"}

\* C12 (as claimed): the rate limiter runs before body parsing and before any
\* route handler: once init has run, the limiter's handler is in the stack
\* ahead of the body parsers, and no request is handled by a body parser or
\* reaches a route handler without the limiter having handled it first.
\* Violated: what init registers in that place is the promise returned by
\* the async rateLimiter(), never the handler.
C12_LimiterBeforeParsers ==
  /\ limiterSetup # "none" =>
       \E i \in DOMAIN stack :
         /\ stack[i] = Function("rateLimiter")
         /\ \A j \in DOMAIN stack : stack[j].name \in BodyParsers => i < j
  /\ \A p \in Dispatched :
       LET v == disp[p].visited
       IN /\ \A k \in DOMAIN v :
               v[k].by \in BodyParsers => \E m \in 1..(k - 1) : v[m].by = "rateLimiter"
          /\ disp[p].outcome = "route" => \E m \in DOMAIN v : v[m].by = "rateLimiter"

----------------------------------------------------------------------------
(* Properties of fileUploadParser *)

\* A content type that is absent or does not start with multipart/form-data.
NotFormData(ct) == ct \in {Undefined, Json, UrlEncoded, MultipartMixed}

HasFileUpload(req) == "fileUpload" \in DOMAIN req

\* The handler signalled its end once, without an error: through the
\* caller's next, or with options.promisify through the handler's promise.
SignalledOnce(u, o, arg) ==
  /\ u.next = <<arg>>
  /\ ~u.unhandled
  /\ IF o.promisify
     THEN u.callerNext = 0 /\ u.promise = (IF arg = "none" THEN "resolved" ELSE "rejected")
     ELSE u.callerNext = 1 /\ u.promise = "pending"

\* C13: for a request whose content-type header is absent or does not start
\* with multipart/form-data the handler is a no-op success: next is called
\* exactly once without an error, nothing is written to the upload
\* directory, and req.body and req.fileUpload are left as they were.
C13_NonMultipartIsNoOp ==
  upload.pc # "idle" /\ NotFormData(uploadReq.contentType) =>
    /\ upload.pc = "done"
    /\ SignalledOnce(upload, uploadOpts, "none")
    /\ uploadDir = {}
    /\ uploadReq.body = upload.body
    /\ ~HasFileUpload(uploadReq)
    /\ uploadFiles = <<>>

\* C13 witness: a multipart/mixed request has been handed on.
C13_Witness ==
  /\ upload.pc = "done"
  /\ uploadReq.contentType = MultipartMixed
  /\ upload.next = <<"none">>
  /\ upload.callerNext = 1

\* The validator has run over the uploaded files and thrown.
ValidationThrew == uploadFiles # <<>> /\ upload.pc # "validate" /\ ~upload.validated

\* C14: if validateUploadedFiles fails inside the handler, next is called
\* exactly once with that validation error, no archive is expanded, and
\* req.fileUpload is never set for the request.
C14_ValidationFailureAborts ==
  /\ ValidationThrew =>
       /\ upload.pc = "done"
       /\ SignalledOnce(upload, uploadOpts, "VALIDATION_FAILED")
       /\ upload.unzipping = {} /\ upload.expanded = {} /\ upload.failed = {}
       /\ \A p \in stagedPaths(uploadFiles) : unzipTarget(p) \notin uploadDir
       /\ ~HasFileUpload(uploadReq)
  /\ (\E i \in DOMAIN upload.next : upload.next[i] = "VALIDATION_FAILED") => ValidationThrew

\* C14 witness: an upload with unzip requested whose zip archive is of a type
\* the route does not expect has been refused.
C14_Witness ==
  /\ ValidationThrew
  /\ uploadOpts.unzip
  /\ \E k \in DOMAIN uploadFiles : fileTypeFromFile(uploadFiles[k][1].filepath) = Zip
  /\ upload.next = <<"VALIDATION_FAILED">>

\* C15 (as claimed): every invocation of the handler ends with next called
\* exactly once, whichever step fails, and no failure is left as an
\* unhandled rejection. Violated: a failed extraction rejects inside the
\* callback of parse, and the run stops with next never called.
C15_EveryRunCallsNextOnce ==
  /\ Len(upload.next) <= 1
  /\ ~upload.unhandled
  /\ upload.pc = "crashed" /\ upload.unzipping = {} => Len(upload.next) = 1

\* C16 (as claimed): after a successful expansion the source archive is
\* deleted if and only if options.removeZipSource is true. Violated: the
\* handler passes removeSource: options.removeZipSource || true.
C16_SourceDeletedIffRemoveZipSource ==
  \A k \in upload.expanded :
    (upload.checked[k][1].filepath \notin uploadDir) <=> uploadOpts.removeZipSource

\* C17 (as claimed): if extraction fails, the file record is exactly as it
\* was after validation (mimetype and filepath). Violated: the mimetype is
\* set to application/zip before unzip is awaited.
C17_FailedExtractionLeavesRecord ==
  \A k \in upload.failed :
    /\ uploadFiles[k][1].mimetype = upload.checked[k][1].mimetype
    /\ uploadFiles[k][1].filepath = upload.checked[k][1].filepath

----------------------------------------------------------------------------
(* Properties of urlUploadParser *)

\* C18: when the request body has no url field the handler is a no-op
\* success: no outbound fetch is issued, nothing is written to the upload
\* directory, req.fileUpload is not set, and next is called exactly once
\* without an error.
C18_NoUrlIsNoOp ==
  remote.pc # "idle" /\ "url" \notin DOMAIN remoteReq.body =>
    /\ remote.pc = "done"
    /\ SignalledOnce(remote, remoteOpts, "none")
    /\ remote.response = NoResponse
    /\ remote.validating = "none"
    /\ remoteDir = {}
    /\ ~HasFileUpload(remoteReq)

\* C18 witness: a request whose body holds other fields but no url has been
\* handed on.
C18_Witness ==
  /\ remote.pc = "done"
  /\ remoteReq.body = [id |-> "5"]
  /\ remote.next = <<"none">>

\* The fetch ended in a 404 response / without any response.
Fetched404 ==
  remote.response.kind = "error" /\ remote.response.hasResponse /\ remote.response.status = 404

TransportFailure ==
  remote.response.kind = "error" /\ ~remote.response.hasResponse
    /\ remote.response.code # "ERR_INVALID_URL"

\* C19 (as claimed): a 404 from the remote host ends the request with a 'not
\* found' error and a transport failure ends it with a different 'remote
\* fetch failed' error; in both cases the error is reported exactly once
\* through next, no file is written and req.fileUpload is not set.
\* Violated: for an error without a response the catch block throws on
\* e.response.status and next is never called.
C19_FetchFailuresReported ==
  /\ Fetched404 =>
       /\ SignalledOnce(remote, remoteOpts, "INVALID_ASSET_URL")
       /\ remoteDir = {} /\ ~HasFileUpload(remoteReq)
  /\ TransportFailure =>
       /\ Len(remote.next) = 1
       /\ remote.next[1] \notin {"none", "INVALID_ASSET_URL"}
       /\ ~remote.unhandled
       /\ remoteDir = {} /\ ~HasFileUpload(remoteReq)

\* A remote resource the policy does not admit: neither its declared type nor
\* the type of its bytes is expected, or its content-length exceeds
\* maxFileSize.
Inadmissible(response, o) ==
  /\ response.kind = "response"
  /\ \/ /\ ~includes(o.expectedFileTypes, response.contentType)
        /\ ~includes(o.expectedFileTypes, signatureOf(response.bytes))
     \/ response.contentLength > o.maxFileSize

\* C20 (as claimed): a remote resource whose type is not in expectedFileTypes
\* or whose content-length exceeds maxFileSize never has next called without
\* an error and never has req.fileUpload set. Violated: the validation is
\* started without await and its outcome is dropped, so the download is
\* attached and next() called whatever the validation finds.
C20_RemoteValidatedBeforeSuccess ==
  Inadmissible(remote.response, remoteOpts) =>
    /\ \A i \in DOMAIN remote.next : remote.next[i] # "none"
    /\ ~HasFileUpload(remoteReq)

\* How often middleware `name` called next for request p.
NextCalls(p, name) ==
  Cardinality({k \in 1..Len(disp[p].visited) : disp[p].visited[k].by = name})

\* The body of request p is one its parser `name` cannot parse.
Unparseable(p, name) ==
  /\ ~disp[p].req.wellFormed
  /\ disp[p].req.contentType = (IF name = "bodyParserJson" THEN Json ELSE UrlEncoded)

\* C21: each body parser calls next exactly once per request it handles: with
\* BODY_PARSE_FAILED carrying the parser's message when the body cannot be
\* parsed (the request then goes no further and is never routed), and with
\* no error otherwise.
C21_BodyParseFailureReported ==
  \A p \in Dispatched : \A name \in BodyParsers :
    /\ NextCalls(p, name) <= 1
    /\ \A k \in 1..Len(disp[p].visited) :
         disp[p].visited[k].by = name =>
           IF Unparseable(p, name)
           THEN /\ disp[p].visited[k].next = "BODY_PARSE_FAILED"
                /\ k = Len(disp[p].visited)
                /\ disp[p].outcome = "error"
                /\ disp[p].data = parserMessage(name)
           ELSE disp[p].visited[k].next = "none"

\* Malformed JSON was refused by the JSON parser and a malformed urlencoded
\* body passed the JSON parser and was refused by the urlencoded parser.
C21_Witness ==
  \E p, q \in Dispatched :
    /\ Unparseable(p, "bodyParserJson")
    /\ NextCalls(p, "bodyParserJson") = 1
    /\ disp[p].outcome = "error"
    /\ Unparseable(q, "bodyParserUrlEncoded")
    /\ NextCalls(q, "bodyParserJson") = 1
    /\ NextCalls(q, "bodyParserUrlEncoded") = 1
    /\ disp[q].data = parserMessage("bodyParserUrlEncoded")

----------------------------------------------------------------------------
(* Properties of options.promisify *)

\* C22 (as claimed): with options.promisify true the handler's promise
\* settles once the run is over (resolved on success or no-op, rejected when
\* a step fails) and the caller's next is never invoked. Violated: a step
\* that throws inside the async executor or the async close callback ends
\* the run with the promise still pending.
C22_PromiseSettlesOnce ==
  remote.pc \in {"done", "errored", "crashed"} /\ remoteOpts.promisify =>
    /\ remote.callerNext = 0
    /\ remote.promise \in {"resolved", "rejected"}
    /\ remote.promise = "resolved" <=> remote.next = <<"none">>

\* The keys setDefaultFileOptions has a default for.
DefaultedKeys ==
  {"maxFileSize", "multiples", "uploadDir", "promisify", "unzip", "removeZipSource"}

\* C23: setDefaultFileOptions only fills in the keys the caller left absent:
\* every key present in the caller's options keeps the caller's value (falsy
\* ones included), every absent key of the list has its default, no other key
\* appears, and applying it to the result again changes nothing.
C23_DefaultsFillAbsentKeysOnly ==
  upload.pc # "idle" =>
    /\ DOMAIN uploadOpts = DOMAIN upload.given \cup DefaultedKeys
    /\ \A k \in DOMAIN upload.given : uploadOpts[k] = upload.given[k]
    /\ \A k \in DefaultedKeys \ DOMAIN upload.given :
         uploadOpts[k] = defaultFileOptions[k]
    /\ setDefaultFileOptions(uploadOpts) = uploadOpts

\* A caller passed removeZipSource: false and a maxFileSize, and left unzip
\* and promisify out.
C23_Witness ==
  /\ upload.pc # "idle"
  /\ DOMAIN upload.given = {"expectedFileTypes", "removeZipSource", "maxFileSize"}
  /\ upload.given.removeZipSource = FALSE
  /\ uploadOpts.removeZipSource = FALSE
  /\ uploadOpts.maxFileSize = MaxSize
  /\ uploadOpts.unzip = FALSE
  /\ uploadOpts.promisify = FALSE

----------------------------------------------------------------------------
(* Properties of the multipart parse *)

\* C24: when formidable aborts the parse with code 1009 the handler hands
\* FILE_EXCEEDS_MAX_SIZE to next, once, and does so instead of validating:
\* validateUploadedFiles is not invoked, no archive is expanded and
\* req.fileUpload is not set.
C24_SizeCutoffBeforeValidator ==
  upload.parsed = "1009" =>
    /\ SignalledOnce(upload, uploadOpts, "FILE_EXCEEDS_MAX_SIZE")
    /\ upload.pc = "done"
    /\ ~upload.validated
    /\ upload.expanded = {} /\ upload.unzipping = {}
    /\ ~HasFileUpload(uploadReq)

\* The parse of an upload for a handler with unzip set was aborted with 1009.
C24_Witness ==
  /\ upload.parsed = "1009"
  /\ uploadOpts.unzip
  /\ upload.next = <<"FILE_EXCEEDS_MAX_SIZE">>

\* The names of the form fields of the parsed form.
FieldNames == {upload.fields[i].name : i \in 1..Len(upload.fields)}

\* C25: after a successful parse, req.body[k] of every form field k is the
\* JSON-decoded first value of the field when that value parses as JSON and
\* the raw first value otherwise; the other keys of req.body are unchanged.
C25_FieldsDecodedIntoBody ==
  upload.parsed = "ok" =>
    /\ DOMAIN uploadReq.body = DOMAIN upload.body \cup FieldNames
    /\ \A i \in 1..Len(upload.fields) :
         LET raw == upload.fields[i].values[1]
         IN uploadReq.body[upload.fields[i].name] =
              (IF raw = "12" THEN [typeof |-> "number", text |-> "12"]
               ELSE [typeof |-> "string", text |-> raw])
    /\ \A k \in DOMAIN upload.body \ FieldNames : uploadReq.body[k] = upload.body[k]

\* A field with two values, the first of which is JSON, was decoded.
C25_Witness ==
  /\ upload.parsed = "ok"
  /\ Len(upload.fields) = 1
  /\ upload.fields[1].values = <<"12", "abc">>
  /\ uploadReq.body.title.typeof = "number"
  /\ uploadReq.body.id = "5"

\* C26 (as claimed): after a successful run with unzip set, every file whose
\* validated type is a zip type, in every field and at every position of a
\* field, has mimetype application/zip and the extracted directory as its
\* filepath, and every other file keeps both. Violated: the handler takes
\* only the first file of each field ([k, [f]]).
C26_EveryZipExpanded ==
  upload.pc = "done" /\ upload.next = <<"none">> /\ uploadOpts.unzip
    /\ HasFileUpload(uploadReq) =>
    \A k \in DOMAIN uploadFiles : \A j \in DOMAIN uploadFiles[k] :
      LET v == upload.checked[k][j]
          f == uploadFiles[k][j]
      IN IF isZip(v.mimetype)
         THEN f.mimetype = Zip /\ f.filepath = unzipTarget(v.filepath)
         ELSE f.mimetype = v.mimetype /\ f.filepath = v.filepath

----------------------------------------------------------------------------
(* Properties of the remote response *)

\* C27 (as claimed): a response without a content-type or a content-length
\* header is served gracefully: the run still ends through next, and a
\* missing length does not by itself make the size check fail. Violated:
\* without a content-type, contentType.split throws before anything is
\* sniffed and next is never called.
C27_MissingHeadersDegrade ==
  remote.response.kind = "response" =>
    /\ remote.response.contentType = Undefined =>
         /\ ~remote.unhandled
         /\ remote.pc # "crashed"
    /\ remote.response.contentType # Undefined /\ remote.response.contentLength = NaN =>
         ~notSizeExceeds(remote.fileData.files.file[1], remoteOpts)

\* C28 (as claimed): for a fetched resource of a zip type with options.unzip
\* set, once the download stream has closed the run ends successfully: next
\* is called exactly once without an error and nothing is left unhandled.
\* Violated: the close callback assigns to req.fileUpload.files.course, a
\* key the record made for the download does not have.
C28_RemoteZipExpanded ==
  /\ remote.response.kind = "response"
  /\ remote.response.contentType = Zip
  /\ remoteOpts.unzip
  /\ HasFileUpload(remoteReq)
  /\ remote.next # <<"StreamError">>
  => /\ ~remote.unhandled
     /\ remote.next = <<"none">>

\* C29 (as claimed): every file staged by urlUploadParser has a path of its
\* own: two requests served at once never hold write streams on the same
\* path of the upload directory. Violated: the file name is the clock
\* reading in milliseconds and the content subtype, nothing of the request.
C29_StagedPathsUnique ==
  \A a, b \in remote.streams : a.path = b.path => a.by = b.by

----------------------------------------------------------------------------
(* Invariant of the multipart pipeline *)

\* C30: whenever the handler has set req.fileUpload, the validation of the
\* files had completed successfully, there is at least one file, and every
\* attached file has a mimetype in expectedFileTypes (or application/zip, for
\* an expanded archive) and a size not greater than maxFileSize; after a form
\* without files req.fileUpload is not set.
C30_AttachedFilesAreValid ==
  /\ HasFileUpload(uploadReq) =>
       /\ upload.parsed = "ok"
       /\ upload.validated
       /\ uploadReq.fileUpload.files # <<>>
       /\ \A k \in DOMAIN uploadReq.fileUpload.files :
            \A j \in DOMAIN uploadReq.fileUpload.files[k] :
              LET f == uploadReq.fileUpload.files[k][j]
              IN /\ \/ includes(uploadOpts.expectedFileTypes, f.mimetype)
                    \/ f.mimetype = Zip /\ k \in upload.expanded /\ j = 1
                 /\ f.size <= uploadOpts.maxFileSize
  /\ upload.parsed = "ok" /\ uploadFiles = <<>> => ~HasFileUpload(uploadReq)

\* Two files were attached: an archive sent as application/x-zip-compressed
\* and expanded, and a file of the largest size allowed.
C30_Witness ==
  /\ HasFileUpload(uploadReq)
  /\ upload.expanded # {}
  /\ \E k \in DOMAIN uploadReq.fileUpload.files :
       /\ upload.checked[k][1].mimetype = XZip
       /\ uploadReq.fileUpload.files[k][1].mimetype = Zip
  /\ \E k \in DOMAIN uploadReq.fileUpload.files :
       \E j \in DOMAIN uploadReq.fileUpload.files[k] :
         uploadReq.fileUpload.files[k][j].size = uploadOpts.maxFileSize
====
